---- MODULE Spec2Model ----
(***************************************************************************)
(* Model of the blood sugar tracker script (src/app.py).                   *)
(*                                                                         *)
(* The script is a Streamlit page: every user interaction reruns it from   *)
(* top to bottom.  One rerun is modelled as the chain of steps             *)
(*   Rerun -> sidebar (import) -> form (add reading) -> filters -> metrics *)
(* and the only state that survives a rerun is the CSV file on disk and    *)
(* the process-wide cache of load_data (st.cache_data).                    *)
(*                                                                         *)
(* Time is counted in hours since midnight (UTC) of day 0.  A datetime     *)
(* cell is a record [kind, t, off]:                                        *)
(*   "utc"   tz-aware, offset 0, t = wall clock = instant                  *)
(*   "off"   tz-aware with offset off, t = wall clock, instant = t - off   *)
(*   "naive" no zone, t = wall clock                                       *)
(*   "nat"   missing value (NaT, an empty CSV cell)                        *)
(*   "bad"   a string no parser accepts                                    *)
(* The same record stands for the cell in memory and for its text in the   *)
(* CSV file: pandas writes a Timestamp with its offset and reads it back   *)
(* with the same offset, an empty cell as NaT, and leaves a string it      *)
(* cannot parse unchanged.                                                 *)
(* Percentages are counted in tenths of a percent, A1C in hundredths.      *)
(***************************************************************************)
EXTENDS Integers, Sequences, FiniteSets, TLC

\* ---- bounds of the model ----
MaxRows == 2          \* longest frame the model builds

Dates == {0, 1}                         \* calendar days the pickers offer
TimesIn == {18}                          \* time_input value (hour of day)
GlucoseIn == {154, 250}                  \* values typed in the glucose box
ContextIn == {"fasting", "other"}        \* two of the six selectbox options
NotesIn == {" ok "}
\* <<low, high>> of the two number_inputs (70..200 and 90..300): the
\* defaults and a pair with low above high, which the widgets accept.
SettingsIn == {<<70, 180>>, <<200, 90>>}
\* <<From, To, Context filter>> of the filter row.
FiltersIn == {<<0, 1, {}>>, <<0, 0, {}>>, <<1, 1, {}>>, <<1, 0, {}>>,
              <<0, 1, {"fasting"}>>}
LocalZones == {0, 8}                     \* UTC offset of the host's zone

VARIABLES
    file,        \* glucose_log.csv: the rows on disk, <<>> when missing
    cache,       \* st.cache_data entry of load_data: [set, val]
    local_tz,    \* tz.tzlocal(): UTC offset in hours of the host
    pc,          \* position of the running script
    df,          \* the module-level frame df (datetime column as loaded)
    uploaded,    \* the file_uploader value of this rerun
    new_row,     \* <<row>> built by the Add reading handler, else <<>>
    log,         \* st.* messages of this rerun, in order
    dt_utc,      \* df["datetime"] after line 119 (ensure_utc)
    start_date, end_date, ctx_filter,
    view,        \* the filtered frame, with its local_dt column
    metrics      \* what the four st.metric boxes were computed from

vars == <<file, cache, local_tz, pc, df, uploaded, new_row, log, dt_utc,
          start_date, end_date, ctx_filter, view, metrics>>

\* ---- values ----
NaT == [kind |-> "nat", t |-> 0, off |-> 0]
BadStamp == [kind |-> "bad", t |-> 0, off |-> 0]
Utc(t) == [kind |-> "utc", t |-> t, off |-> 0]

Row(ts, g, c, cb, ins, n) ==
    [datetime |-> ts, glucose_mgdl |-> g, context |-> c,
     carbs_g |-> cb, insulin_units |-> ins, notes |-> n]

NoUpload == [present |-> FALSE, readable |-> TRUE, rows |-> <<>>]
Csv(rows) == [present |-> TRUE, readable |-> TRUE, rows |-> rows]
BrokenCsv == [present |-> TRUE, readable |-> FALSE, rows |-> <<>>]

NoMetrics == [shown |-> FALSE, readings |-> 0, avg |-> <<0, 1>>,
              tir |-> <<0, 0, 0>>, a1c |-> 0]

Range(s) == {s[i] : i \in 1..Len(s)}

\* ---- sort_values("datetime") ----
IsAware(x) == x.kind \in {"utc", "off"}
Instant(x) == x.t - x.off

\* The column sorts only when its non-missing cells are mutually comparable:
\* all tz-aware, all tz-naive, or all strings.  Otherwise pandas raises
\* TypeError.
Sortable(s) ==
    LET ks == {s[i].datetime.kind : i \in 1..Len(s)} \ {"nat"}
    IN  \/ ks \subseteq {"utc", "off"}
        \/ ks \subseteq {"naive"}
        \/ ks \subseteq {"bad"}

SortKey(x) == IF IsAware(x) THEN Instant(x) ELSE x.t

\* a sorts strictly before b; missing values go last (na_position="last").
Before(a, b) ==
    IF a.datetime.kind = "nat" THEN FALSE
    ELSE IF b.datetime.kind = "nat" THEN TRUE
    ELSE SortKey(a.datetime) < SortKey(b.datetime)

RECURSIVE InsertSorted(_, _)
InsertSorted(r, s) ==
    IF s = <<>> THEN <<r>>
    ELSE IF Before(r, Head(s)) THEN <<r>> \o s
    ELSE <<Head(s)>> \o InsertSorted(r, Tail(s))

\* Frames this small are sorted by insertion, which keeps ties in order.
RECURSIVE sort_values(_)
sort_values(s) ==
    IF s = <<>> THEN <<>>
    ELSE InsertSorted(s[Len(s)], sort_values(SubSeq(s, 1, Len(s) - 1)))

\* A merge that forgets to eliminate duplicates.
keep_duplicates(s) == s

\* ---- drop_duplicates(): keep the first of each group of equal rows ----
RECURSIVE drop_duplicates(_)
drop_duplicates(s) ==
    IF s = <<>> THEN <<>>
    ELSE LET init == drop_duplicates(SubSeq(s, 1, Len(s) - 1))
             last == s[Len(s)]
         IN  IF last \in Range(init) THEN init ELSE Append(init, last)

concat(a, b) == a \o b

\* ---- load_data / save_data ----
\* The body of load_data: read the file, sort; any exception gives an
\* empty frame.
read_and_sort(f) == IF Sortable(f) THEN sort_values(f) ELSE <<>>

\* @st.cache_data on a function without arguments: the body runs once per
\* process, every later call returns the stored value.
load_data_value == IF cache.set THEN cache.val ELSE read_and_sort(file)
load_data_cache == [set |-> TRUE, val |-> load_data_value]

\* save_data(d): the write succeeds when the sort does and the disk does.
save_ok(d, io_ok) == io_ok /\ Sortable(d)
save_data_file(d, io_ok) == IF save_ok(d, io_ok) THEN sort_values(d) ELSE file
save_data_log(d, io_ok) == IF save_ok(d, io_ok) THEN <<>> ELSE <<"warning">>

Init ==
    /\ file = <<>>
    /\ cache = [set |-> FALSE, val |-> <<>>]
    /\ local_tz \in LocalZones
    /\ pc = "done"
    /\ df = <<>>
    /\ uploaded = NoUpload
    /\ new_row = <<>>
    /\ log = <<>>
    /\ dt_utc = <<>>
    /\ start_date = 0
    /\ end_date = 0
    /\ ctx_filter = {}
    /\ view = <<>>
    /\ metrics = NoMetrics

\* Line 32: a rerun starts, df = load_data().
Rerun ==
    /\ pc = "done"
    /\ pc' = "sidebar"
    /\ df' = load_data_value
    /\ cache' = load_data_cache
    /\ uploaded' = NoUpload
    /\ new_row' = <<>>
    /\ log' = <<>>
    /\ dt_utc' = <<>>
    /\ start_date' = 0
    /\ end_date' = 0
    /\ ctx_filter' = {}
    /\ view' = <<>>
    /\ metrics' = NoMetrics
    /\ UNCHANGED <<file, local_tz>>

\* The server process is restarted between two reruns: the cache is lost.
Restart ==
    /\ pc = "done"
    /\ cache.set
    /\ cache' = [set |-> FALSE, val |-> <<>>]
    /\ df' = <<>>
    /\ uploaded' = NoUpload
    /\ new_row' = <<>>
    /\ log' = <<>>
    /\ dt_utc' = <<>>
    /\ start_date' = 0
    /\ end_date' = 0
    /\ ctx_filter' = {}
    /\ view' = <<>>
    /\ metrics' = NoMetrics
    /\ UNCHANGED <<file, local_tz, pc>>

\* ---- the sidebar: settings, download, import (lines 34-56) ----
\* Rows a user's CSV may hold besides rows exported from the app.
ImportRows ==
    { Row(NaT, 154, "fasting", 0, 0, ""),
      Row(BadStamp, 250, "other", 0, 0, ""),
      Row([kind |-> "naive", t |-> 18, off |-> 0], 154, "other", 0, 0, ""),
      Row([kind |-> "off", t |-> 30, off |-> 8], 250, "fasting", 0, 0, "") }

Uploads ==
    {Csv(<<r>>) : r \in ImportRows \cup Range(file)}
        \cup {Csv(file)} \cup {BrokenCsv}

merge(d, incoming) == drop_duplicates(concat(d, incoming))

\* uploaded is None: the import block is skipped.
NoImport ==
    /\ pc = "sidebar"
    /\ pc' = "form"
    /\ UNCHANGED <<file, cache, local_tz, df, uploaded, new_row, log, dt_utc,
                   start_date, end_date, ctx_filter, view, metrics>>

\* Lines 48-56 with a file in the uploader.
Import ==
    /\ pc = "sidebar"
    /\ \E up \in Uploads, io_ok \in BOOLEAN :
        /\ up.rows # <<>> \/ ~up.readable
        /\ Len(merge(df, up.rows)) <= MaxRows
        /\ uploaded' = up
        /\ IF up.readable
           THEN LET merged == merge(df, up.rows)
                IN  /\ file' = save_data_file(merged, io_ok)
                    /\ log' = log \o save_data_log(merged, io_ok)
                                  \o <<"sidebar.success">>
                    /\ df' = load_data_value
           ELSE /\ file' = file
                /\ log' = Append(log, "sidebar.error")
                /\ df' = df
    /\ pc' = "form"
    /\ UNCHANGED <<cache, local_tz, new_row, dt_utc, start_date, end_date,
                   ctx_filter, view, metrics>>

\* ---- the input form (lines 61-89) ----
strip(n) == IF n = " ok " THEN "ok" ELSE n

\* datetime.combine(date_in, time_in), then tz_localize("UTC"): the wall
\* clock the user typed is tagged as UTC, not converted.
form_timestamp(date_in, time_in) == Utc(24 * date_in + time_in)

NoClick ==
    /\ pc = "form"
    /\ pc' = "filters"
    /\ UNCHANGED <<file, cache, local_tz, df, uploaded, new_row, log, dt_utc,
                   start_date, end_date, ctx_filter, view, metrics>>

\* An Add reading handler that keeps the new row only when it was saved.
AddReadingRollback ==
    /\ pc = "form"
    /\ Len(df) < MaxRows
    /\ \E date_in \in Dates, time_in \in TimesIn, glucose \in GlucoseIn,
          context \in ContextIn, notes \in NotesIn, io_ok \in BOOLEAN :
        LET row == Row(form_timestamp(date_in, time_in), glucose, context,
                       0, 0, strip(notes))
            d == concat(df, <<row>>)
        IN  /\ new_row' = <<row>>
            /\ df' = IF save_ok(d, io_ok) THEN d ELSE df
            /\ file' = save_data_file(d, io_ok)
            /\ log' = log \o save_data_log(d, io_ok) \o <<"success">>
    /\ pc' = "filters"
    /\ UNCHANGED <<cache, local_tz, uploaded, dt_utc, start_date, end_date,
                   ctx_filter, view, metrics>>

\* Lines 72-89: the button was pressed.
AddReading ==
    /\ pc = "form"
    /\ Len(df) < MaxRows
    /\ \E date_in \in Dates, time_in \in TimesIn, glucose \in GlucoseIn,
          context \in ContextIn, notes \in NotesIn, io_ok \in BOOLEAN :
        LET row == Row(form_timestamp(date_in, time_in), glucose, context,
                       0, 0, strip(notes))
            d == concat(df, <<row>>)
        IN  /\ new_row' = <<row>>
            /\ df' = d
            /\ file' = save_data_file(d, io_ok)
            /\ log' = log \o save_data_log(d, io_ok) \o <<"success">>
    /\ pc' = "filters"
    /\ UNCHANGED <<cache, local_tz, uploaded, dt_utc, start_date, end_date,
                   ctx_filter, view, metrics>>

\* ---- filters (lines 91-143) ----
\* A fix that turns what it cannot parse into the epoch instead of NaT.
fix_epoch(x) ==
    IF x.kind = "nat" THEN NaT
    ELSE IF x.kind = "bad" THEN Utc(0)
    ELSE IF x.kind = "naive" THEN Utc(x.t)
    ELSE Utc(x.t - x.off)

\* ensure_utc.fix: coerce, keep NaT, tag a naive value, convert an aware one.
fix(x) ==
    IF x.kind \in {"nat", "bad"} THEN NaT
    ELSE IF x.kind = "naive" THEN Utc(x.t)
    ELSE Utc(Instant(x))

ensure_utc(s) == [i \in 1..Len(s) |-> fix(s[i].datetime)]

\* .dt.date of a UTC column: the calendar day of the UTC wall clock.
dt_date(x) == x.t \div 24

\* to_local.fix_ts
fix_ts(x, zone) ==
    IF x.kind = "nat" THEN x
    ELSE [kind |-> "off", t |-> Instant(x) + zone, off |-> zone]

\* One element of the mask of lines 120-122; a comparison with NaT is False.
mask(x, context, from, to, ctxs) ==
    /\ x.kind # "nat"
    /\ dt_date(x) >= from
    /\ dt_date(x) <= to
    /\ (ctxs # {} => context \in ctxs)

ViewRow(r, x, zone) ==
    [datetime |-> x, glucose_mgdl |-> r.glucose_mgdl, context |-> r.context,
     carbs_g |-> r.carbs_g, insulin_units |-> r.insulin_units,
     notes |-> r.notes, local_dt |-> fix_ts(x, zone)]

RECURSIVE loc_mask(_, _, _, _, _, _)
loc_mask(d, col, from, to, ctxs, zone) ==
    IF d = <<>> THEN <<>>
    ELSE LET rest == loc_mask(Tail(d), Tail(col), from, to, ctxs, zone)
         IN  IF mask(Head(col), Head(d).context, from, to, ctxs)
             THEN <<ViewRow(Head(d), Head(col), zone)>> \o rest
             ELSE rest

\* Lines 94-105 only compute the pickers' default values (inside try, with
\* today's date as fallback); the user may pick any From, To and contexts.
\* An empty df gives an empty view either way (lines 124-125).
Filter ==
    /\ pc = "filters"
    /\ \E f \in FiltersIn :
        /\ start_date' = f[1]
        /\ end_date' = f[2]
        /\ ctx_filter' = f[3]
        /\ dt_utc' = ensure_utc(df)
        /\ view' = loc_mask(df, ensure_utc(df), f[1], f[2], f[3], local_tz)
    /\ pc' = "metrics"
    /\ UNCHANGED <<file, cache, local_tz, df, uploaded, new_row, log, metrics>>

\* ---- metrics (lines 145-171) ----
\* round(n / d, 0) to the nearest integer, ties to even.
RoundDiv(n, d) ==
    LET q == n \div d
        r == n % d
    IN  IF 2 * r < d THEN q
        ELSE IF 2 * r > d THEN q + 1
        ELSE IF q % 2 = 0 THEN q ELSE q + 1

\* The relation with 46.9 for 46.7, the intercept that would give 7.00 at 154.
est_a1c_intercept_469(eag) ==
    RoundDiv((10 * eag[1] + 469 * eag[2]) * 100, 287 * eag[2])

\* eag is the mean as a fraction <<sum, count>>; the result is in hundredths:
\* round((eag + 46.7) / 28.7, 2).
est_a1c_from_eag(eag) ==
    RoundDiv((10 * eag[1] + 467 * eag[2]) * 100, 287 * eag[2])

\* Percentages in tenths: round(100 * count / total, 1).
time_in_range(series, low, high) ==
    IF Len(series) = 0 THEN <<0, 0, 0>>
    ELSE LET total == Len(series)
             idx == 1..Len(series)
             in_range == Cardinality({i \in idx : series[i] >= low
                                                  /\ series[i] <= high})
             low_ct == Cardinality({i \in idx : series[i] < low})
             high_ct == Cardinality({i \in idx : series[i] > high})
         IN  <<RoundDiv(1000 * in_range, total),
               RoundDiv(1000 * low_ct, total),
               RoundDiv(1000 * high_ct, total)>>

RECURSIVE Sum(_)
Sum(s) == IF s = <<>> THEN 0 ELSE Head(s) + Sum(Tail(s))

glucose_column(v) == [i \in 1..Len(v) |-> v[i].glucose_mgdl]

Metrics ==
    /\ pc = "metrics"
    /\ \E s \in SettingsIn :
        metrics' =
            IF view = <<>> THEN NoMetrics
            ELSE LET avg == <<Sum(glucose_column(view)), Len(view)>>
                 IN  [shown |-> TRUE,
                      readings |-> Len(view),
                      avg |-> avg,
                      tir |-> time_in_range(glucose_column(view),
                                            s[1], s[2]),
                      a1c |-> est_a1c_from_eag(avg)]
    /\ pc' = "done"
    /\ UNCHANGED <<file, cache, local_tz, df, uploaded, new_row, log, dt_utc,
                   start_date, end_date, ctx_filter, view>>

Next ==
    \/ Rerun
    \/ Restart
    \/ NoImport
    \/ Import
    \/ NoClick
    \/ AddReading
    \/ Filter
    \/ Metrics


Spec == Init /\ [][Next]_vars

(***************************************************************************)
(* Properties                                                              *)
(***************************************************************************)
Abs(n) == IF n < 0 THEN -n ELSE n
WellFormed(x) == x.kind \in {"utc", "off", "naive"}
LocalDate(x) == (Instant(x) + local_tz) \div 24
NoRepeats(s) == \A i, j \in 1..Len(s) : s[i] = s[j] => i = j
InView(r, x) == \E j \in 1..Len(view) : view[j] = ViewRow(r, x, local_tz)

\* C1: no step removes a reading from the persisted store: every row of the
\* file before the step is a row of the file after it.
C1_ReadingsPersist ==
    [][\A r \in Range(file) : r \in Range(file')]_vars

\* C2: every reading in the persisted store has a non-null timestamp in UTC.
C2_PersistedUtc ==
    \A i \in 1..Len(file) : file[i].datetime.kind = "utc"

\* C3: once the filter has run, a reading with a timestamp is in the view
\* exactly when its local calendar date is in [start_date, end_date] and its
\* context passes the context filter.
C3_FilterByLocalDate ==
    pc = "metrics" =>
        \A i \in 1..Len(df) :
            dt_utc[i].kind # "nat" =>
                (InView(df[i], dt_utc[i]) <=>
                    /\ LocalDate(dt_utc[i]) >= start_date
                    /\ LocalDate(dt_utc[i]) <= end_date
                    /\ (ctx_filter # {} => df[i].context \in ctx_filter))

\* C4: for a non-empty view and every pair of settings, the three
\* time-in-range percentages add up to 100.0 within 0.1.
C4_SumTo100 ==
    metrics.shown =>
        Abs(metrics.tir[1] + metrics.tir[2] + metrics.tir[3] - 1000) <= 1

\* C5 (as claimed): a mean of 154 mg/dL gives an estimated A1C of 7.00.
C5_A1cOf154Is700 ==
    (metrics.shown /\ metrics.avg[1] = 154 * metrics.avg[2])
        => metrics.a1c = 700

\* C5 (amended): a mean of 154 mg/dL gives an estimated A1C of 6.99, which
\* is (154 + 46.7) / 28.7 = 6.993... rounded to 2 decimal places.
C5_A1cOf154Is699 ==
    (metrics.shown /\ metrics.avg[1] = 154 * metrics.avg[2])
        => metrics.a1c = 699

C5_Witness ==
    /\ pc = "done"
    /\ metrics.shown
    /\ metrics.avg[1] = 154 * metrics.avg[2]
    /\ metrics.a1c = 699

\* An import step whose rows are all rows of the persisted store.
ImportOfDuplicates ==
    /\ pc = "sidebar"
    /\ pc' = "form"
    /\ uploaded'.present
    /\ uploaded'.readable
    /\ Range(uploaded'.rows) \subseteq Range(file)

C7_MalformedExcluded ==
    pc = "metrics" =>
        /\ Len(dt_utc) = Len(df)
        /\ \A i \in 1..Len(df) :
            /\ WellFormed(df[i].datetime) <=> dt_utc[i].kind = "utc"
            /\ ~WellFormed(df[i].datetime) =>
                /\ dt_utc[i] = NaT
                /\ \A j \in 1..Len(view) : view[j].datetime # dt_utc[i]
        /\ \A j \in 1..Len(view) : view[j].datetime.kind = "utc"
        /\ Len(view) <= Cardinality({i \in 1..Len(df) :
                                        WellFormed(df[i].datetime)})

C7_Witness ==
    /\ pc = "metrics"
    /\ \E i, j \in 1..Len(df) :
        /\ WellFormed(df[i].datetime)
        /\ ~WellFormed(df[j].datetime)
    /\ Len(view) = 1

\* The write of the Add reading handler failed.
AddFailed ==
    /\ pc = "filters"
    /\ new_row # <<>>
    /\ Len(log) >= 2
    /\ log[Len(log) - 1] = "warning"
    /\ log[Len(log)] = "success"

\* The write of the import handler failed.
ImportFailed ==
    /\ pc = "form"
    /\ uploaded.present
    /\ uploaded.readable
    /\ log = <<"warning", "sidebar.success">>

\* C8 (as claimed): after a failed write the frame of the rerun still holds
\* the new reading (Add reading) or the imported readings (import).
C8_NoRollbackBothPaths ==
    /\ AddFailed => (df # <<>> /\ df[Len(df)] = new_row[1])
    /\ ImportFailed => Range(uploaded.rows) \subseteq Range(df)

\* C8 (amended): after a failed write a warning is shown; on the Add reading
\* path the frame of the rerun still ends with the new reading; on the import
\* path the frame is replaced by what load_data returns.
C8_NoRollbackOnAdd ==
    /\ AddFailed => (df # <<>> /\ df[Len(df)] = new_row[1])
    /\ ImportFailed => df = cache.val

C8_Witness ==
    /\ AddFailed
    /\ df[Len(df)] = new_row[1]
    /\ new_row[1] \notin Range(file)

\* C9: the view lists its readings in ascending timestamp order.
C9_ViewAscending ==
    pc = "metrics" =>
        \A i, j \in 1..Len(view) :
            i < j => view[i].datetime.t <= view[j].datetime.t

\* C10: the frame loaded at the start of a rerun, and the one reloaded
\* after an import, equals the persisted store.
C10_ReadYourWrites ==
    (pc = "sidebar" \/ (pc = "form" /\ uploaded.present /\ uploaded.readable))
        => df = file
====
